---- MODULE Spec2Model ----
(***************************************************************************)
(* A model of the Netflix-styled movie explorer: the watchlist and its     *)
(* JSON store (app.py), the script run that synchronises the session with  *)
(* the address bar (app.py), and the TMDb client (search_movie.py).        *)
(*                                                                         *)
(* Text is a sequence of one-character strings, so that str(), int(),      *)
(* json.dumps() and json.loads() are computed character by character.      *)
(* An optional value (Python's None or a value) is <<>> or <<v>>.          *)
(***************************************************************************)
EXTENDS Integers, Sequences, FiniteSets, TLC

VARIABLES
    store,              \* my_list.json: [exists, text]
    my_list,            \* st.session_state.my_list
    selected_movie_id,  \* st.session_state.selected_movie_id, <<>> is None
    page,               \* st.session_state.page
    search_box,         \* value of the text_input widget "search_box"
    query_params,       \* st.query_params["movie"]: [kind, s, l]
    screen,             \* what the last script run drew
    reconciled,         \* selected_movie_id as of line 252 of the last run
    requested,          \* the endpoints the last script run sent a request to
    lastEvent,          \* the handler that ran last: [type, id]
    lastSave,           \* the last save_my_list_to_disk call: <<>> or <<[list, ok]>>
    preMode,            \* the mode in which the last selection was made
    apiKey,             \* search_movie.API_KEY
    netCalls,           \* number of requests.get calls made by the client
    apiCall,            \* the client operation called last: [op, arg, resp, result]
    sessions,           \* the sessions sharing my_list.json: [my_list, loaded, ops, pc, text]
    lastWriter,         \* the write_text that completed last: <<>> or <<[session, list]>>
    writeFailed         \* some write_text of a session raised OSError

vars == <<store, my_list, selected_movie_id, page, search_box, query_params,
          screen, reconciled, requested, lastEvent, lastSave, preMode,
          apiKey, netCalls, apiCall, sessions, lastWriter, writeFailed>>

appVars == <<store, my_list, selected_movie_id, page, search_box, query_params,
             screen, reconciled, requested, lastEvent, lastSave, preMode>>

apiVars == <<apiKey, netCalls, apiCall>>

sharedVars == <<sessions, lastWriter, writeFailed>>

\* the session of the browser tab, all but the store
viewVars == <<my_list, selected_movie_id, page, search_box, query_params,
              screen, reconciled, requested, lastEvent, lastSave, preMode>>

(***************************************************************************)
(* Bounds                                                                  *)
(***************************************************************************)
NumIds == 2

MaxCalls == 2

MaxOps == 2

MovieIds == {7 * i : i \in 1..NumIds}

None == <<>>

Some(x) == <<x>>

(***************************************************************************)
(* Text: str(), int(), str.strip()                                         *)
(***************************************************************************)
Digits == <<"0", "1", "2", "3", "4", "5", "6", "7", "8", "9">>

IsDigit(c) == \E i \in 1..10 : Digits[i] = c

DigitVal(c) == (CHOOSE i \in 1..10 : Digits[i] = c) - 1

AllDigits(s) == s # <<>> /\ \A i \in 1..Len(s) : IsDigit(s[i])

RECURSIVE DigitsVal(_)
DigitsVal(s) ==
    IF s = <<>> THEN 0
    ELSE 10 * DigitsVal(SubSeq(s, 1, Len(s) - 1)) + DigitVal(s[Len(s)])

RECURSIVE NatToStr(_)
NatToStr(n) ==
    IF n < 10 THEN <<Digits[n + 1]>>
    ELSE NatToStr(n \div 10) \o <<Digits[(n % 10) + 1]>>

\* str(mid) for an integer mid
PyStr(n) == IF n < 0 THEN <<"-">> \o NatToStr(0 - n) ELSE NatToStr(n)

RECURSIVE LStrip(_)
LStrip(s) == IF s # <<>> /\ Head(s) = " " THEN LStrip(Tail(s)) ELSE s

RECURSIVE RStrip(_)
RStrip(s) ==
    IF s # <<>> /\ s[Len(s)] = " " THEN RStrip(SubSeq(s, 1, Len(s) - 1)) ELSE s

\* str.strip()
Strip(s) == RStrip(LStrip(s))

\* int(text): surrounding blanks and one sign are accepted, then digits only;
\* anything else is a ValueError (ok = FALSE).
PyInt(s) ==
    LET t == Strip(s)
        signed == t # <<>> /\ Head(t) \in {"-", "+"}
        body == IF signed THEN Tail(t) ELSE t
    IN  IF AllDigits(body)
        THEN [ok |-> TRUE,
              val |-> IF signed /\ Head(t) = "-" THEN 0 - DigitsVal(body)
                      ELSE DigitsVal(body)]
        ELSE [ok |-> FALSE, val |-> 0]

(***************************************************************************)
(* JSON text of the watchlist: json.dumps, json.loads                      *)
(***************************************************************************)
RECURSIVE JoinIds(_)
JoinIds(l) ==
    IF l = <<>> THEN <<>>
    ELSE IF Len(l) = 1 THEN PyStr(l[1])
    ELSE PyStr(l[1]) \o <<",", " ">> \o JoinIds(Tail(l))

\* json.dumps(mylist) of a list of integers: "[7, 14]"
JsonDumps(l) == <<"[">> \o JoinIds(l) \o <<"]">>

RECURSIVE Split(_, _)
Split(s, sep) ==
    IF \A i \in 1..Len(s) : s[i] # sep THEN <<s>>
    ELSE LET k == CHOOSE i \in 1..Len(s) :
                      s[i] = sep /\ \A j \in 1..(i - 1) : s[j] # sep
         IN  <<SubSeq(s, 1, k - 1)>> \o Split(SubSeq(s, k + 1, Len(s)), sep)

\* a JSON integer: -?(0|[1-9][0-9]*)
JsonInt(s) ==
    LET neg == s # <<>> /\ Head(s) = "-"
        body == IF neg THEN Tail(s) ELSE s
    IN  IF AllDigits(body) /\ (Len(body) = 1 \/ Head(body) # "0")
        THEN [ok |-> TRUE, val |-> IF neg THEN 0 - DigitsVal(body) ELSE DigitsVal(body)]
        ELSE [ok |-> FALSE, val |-> 0]

\* json.loads(text) on the texts the store can hold: an array of integers
\* parses to its list, every other text of the model is no JSON document
\* and raises json.JSONDecodeError (ok = FALSE).
JsonLoads(text) ==
    LET u == Strip(text)
        inner == SubSeq(u, 2, Len(u) - 1)
        parts == Split(inner, ",")
        nums == [i \in 1..Len(parts) |-> JsonInt(Strip(parts[i]))]
    IN  IF Len(u) < 2 \/ Head(u) # "[" \/ u[Len(u)] # "]"
        THEN [ok |-> FALSE, val |-> <<>>]
        ELSE IF Strip(inner) = <<>>
        THEN [ok |-> TRUE, val |-> <<>>]
        ELSE IF \A i \in 1..Len(parts) : nums[i].ok
        THEN [ok |-> TRUE, val |-> [i \in 1..Len(parts) |-> nums[i].val]]
        ELSE [ok |-> FALSE, val |-> <<>>]

(***************************************************************************)
(* Python values returned by the TMDb client                               *)
(***************************************************************************)
PyNone == [t |-> "None"]

PyNum(n) == [t |-> "int", n |-> n]

PyText(s) == [t |-> "str", s |-> s]

PyList(l) == [t |-> "list", l |-> l]

\* a dict: its keys and, as a record, its values
PyDict(keys, d) == [t |-> "dict", keys |-> keys, d |-> d]

EmptyDict == PyDict({}, <<>>)

EmptyList == PyList(<<>>)

\* dict.get(key, default)
DictGet(v, key, default) == IF key \in v.keys THEN v.d[key] ELSE default

\* bool(v)
Truthy(v) ==
    CASE v.t = "None" -> FALSE
      [] v.t = "int"  -> v.n # 0
      [] v.t = "str"  -> v.s # ""
      [] v.t = "list" -> v.l # <<>>
      [] v.t = "dict" -> v.keys # {}

\* the record TMDb serves for a movie of its catalogue
Movie(id) == PyDict({"id", "title"}, [id |-> PyNum(id), title |-> PyText("Matrix")])

(***************************************************************************)
(* search_movie.py                                                         *)
(***************************************************************************)
HttpOk == 200

\* What requests.get(url, params, timeout=10) can come back with: a
\* requests.RequestException (timeout, connection error), or a response with
\* a status code and a body that is a JSON document or not.
RaisedException == [kind |-> "exception", status |-> 0, valid |-> FALSE, json |-> PyNone]

Http(status, valid, json) ==
    [kind |-> "response", status |-> status, valid |-> valid, json |-> json]

Results(v) == PyDict({"page", "results"}, [page |-> PyNum(1), results |-> v])

ListPayloads ==
    { Results(PyList(<<Movie(7)>>)),        \* a page of movies
      Results(EmptyList),                   \* no match
      Results(PyNone),                      \* "results": null
      Results(PyNum(5)),                    \* "results": 5
      Results(PyList(<<PyNum(5)>>)),        \* entries that are no movie
      PyDict({"page"}, [page |-> PyNum(1)]),\* no "results" key
      EmptyDict,                            \* {}
      PyList(<<Movie(7)>>),                 \* a bare array
      PyNone }                              \* null

Responses ==
    {RaisedException}
    \cup {Http(404, TRUE, PyDict({"status_code"}, [status_code |-> PyNum(34)])),
          Http(500, FALSE, PyNone),
          Http(204, TRUE, Results(PyList(<<Movie(7)>>))),
          Http(HttpOk, FALSE, PyNone)}
    \cup {Http(HttpOk, TRUE, v) : v \in ListPayloads \cup {Movie(7)}}

\* _safe_get with the key check removed
SafeGetNoKeyCheck(key, resp) ==
    [called |-> TRUE,
     data |-> IF resp.kind = "exception" THEN EmptyDict
              ELSE IF resp.status # HttpOk THEN EmptyDict
              ELSE IF ~resp.valid THEN EmptyDict
              ELSE resp.json]

\* _safe_get(url, params): [called] says whether requests.get was called.
\* res.json() on a body that is no JSON raises requests' JSONDecodeError,
\* a RequestException, which the except clause turns into {}.
SafeGet(key, resp) ==
    IF key = "" THEN [called |-> FALSE, data |-> EmptyDict]
    ELSE [called |-> TRUE,
          data |-> IF resp.kind = "exception" THEN EmptyDict
                   ELSE IF resp.status # HttpOk THEN EmptyDict
                   ELSE IF ~resp.valid THEN EmptyDict
                   ELSE resp.json]

\* the tail shared by the list operations: data.get("results", []) of a dict
ResultsOf(got) ==
    [called |-> got.called,
     result |-> IF got.data.t = "dict" THEN DictGet(got.data, "results", EmptyList)
                ELSE EmptyList]

\* search_movie with the empty-query check removed
SearchNoGuard(key, query, resp) == ResultsOf(SafeGet(key, resp))

\* search_movie(query)
search_movie(key, query, resp) ==
    IF query = <<>> THEN [called |-> FALSE, result |-> EmptyList]
    ELSE ResultsOf(SafeGet(key, resp))

\* get_movie_details(movie_id); movie_id is None (<<>>) or <<integer>>
get_movie_details(key, movie_id, resp) ==
    IF movie_id = None \/ movie_id[1] = 0
    THEN [called |-> FALSE, result |-> EmptyDict]
    ELSE LET got == SafeGet(key, resp)
         IN  [called |-> got.called,
              result |-> IF got.data.t = "dict" THEN got.data ELSE EmptyDict]

\* get_recommendations(movie_id)
get_recommendations(key, movie_id, resp) ==
    IF movie_id = None \/ movie_id[1] = 0
    THEN [called |-> FALSE, result |-> EmptyList]
    ELSE ResultsOf(SafeGet(key, resp))

\* get_trending()
get_trending(key, resp) == ResultsOf(SafeGet(key, resp))

\* get_popular()
get_popular(key, resp) == ResultsOf(SafeGet(key, resp))

\* get_top_rated()
get_top_rated(key, resp) == ResultsOf(SafeGet(key, resp))

(***************************************************************************)
(* app.py: the watchlist and its store                                     *)
(***************************************************************************)
MissingFile == [exists |-> FALSE, text |-> <<>>]

File(text) == [exists |-> TRUE, text |-> text]

\* a file text that json.loads rejects (json.JSONDecodeError)
NotJson == <<"{", "n", "o", "t", " ", "j", "s", "o", "n">>

\* Path.read_text either returns the text or raises PermissionError
ReadOutcomes == {"ok", "denied"}

\* load_my_list_from_disk that never reads the text
LoadIgnoringContent(st, r) ==
    IF st.exists /\ r = "denied" THEN [raised |-> TRUE, val |-> <<>>]
    ELSE [raised |-> FALSE, val |-> <<>>]

\* load_my_list_from_disk(): only json.JSONDecodeError is caught, so the
\* PermissionError of an unreadable file leaves the function (raised).
load_my_list_from_disk(st, r) ==
    IF st.exists
    THEN IF r = "denied" THEN [raised |-> TRUE, val |-> <<>>]
         ELSE LET parsed == JsonLoads(st.text)
              IN  [raised |-> FALSE, val |-> IF parsed.ok THEN parsed.val ELSE <<>>]
    ELSE [raised |-> FALSE, val |-> <<>>]

\* Path.write_text(text) completes, or raises OSError before the file is
\* opened (denied) or once open() has truncated it and before the text is in
\* it (partial, k characters written; a cut inside the text leaves, like the
\* empty file, no JSON document).
WriteOutcomes(text) ==
    {[kind |-> "ok", k |-> Len(text)], [kind |-> "denied", k |-> 0],
     [kind |-> "partial", k |-> 0]}

\* save_my_list_to_disk that writes nothing
SaveNothing(st, mylist, w) == st

\* save_my_list_to_disk(mylist): the store afterwards; OSError is swallowed
save_my_list_to_disk(st, mylist, w) ==
    CASE w.kind = "ok"      -> File(JsonDumps(mylist))
      [] w.kind = "denied"  -> st
      [] w.kind = "partial" -> File(SubSeq(JsonDumps(mylist), 1, w.k))

Contains(l, x) == \E i \in 1..Len(l) : l[i] = x

Without(l, x) == SelectSeq(l, LAMBDA y : y # x)

\* add_to_my_list without the membership test
AddAppendAlways(ml, st, movie_id, w) ==
    IF movie_id = None THEN [list |-> ml, store |-> st, saved |-> FALSE]
    ELSE [list |-> Append(ml, movie_id[1]),
          store |-> save_my_list_to_disk(st, Append(ml, movie_id[1]), w),
          saved |-> TRUE]

\* add_to_my_list that puts the new id first
AddInFront(ml, st, movie_id, w) ==
    IF Contains(ml, movie_id[1])
    THEN [list |-> ml, store |-> st, saved |-> FALSE]
    ELSE [list |-> <<movie_id[1]>> \o ml,
          store |-> save_my_list_to_disk(st, <<movie_id[1]>> \o ml, w),
          saved |-> TRUE]

\* add_to_my_list(movie_id): [saved] says whether save_my_list_to_disk ran
add_to_my_list(ml, st, movie_id, w) ==
    IF movie_id = None THEN [list |-> ml, store |-> st, saved |-> FALSE]
    ELSE IF ~Contains(ml, movie_id[1])
    THEN [list |-> Append(ml, movie_id[1]),
          store |-> save_my_list_to_disk(st, Append(ml, movie_id[1]), w),
          saved |-> TRUE]
    ELSE [list |-> ml, store |-> st, saved |-> FALSE]

\* remove_from_my_list(movie_id)
remove_from_my_list(ml, st, movie_id, w) ==
    IF movie_id = None THEN [list |-> ml, store |-> st, saved |-> FALSE]
    ELSE [list |-> Without(ml, movie_id[1]),
          store |-> save_my_list_to_disk(st, Without(ml, movie_id[1]), w),
          saved |-> TRUE]

(***************************************************************************)
(* app.py: the address bar and the script run                              *)
(***************************************************************************)
Absent == [kind |-> "absent", s |-> <<>>, l |-> <<>>]

Scalar(s) == [kind |-> "str", s |-> s, l |-> <<>>]

Plural(l) == [kind |-> "list", s |-> <<>>, l |-> l]

\* the movie parameter of a location a page can be opened with
Locations ==
    {Absent, Scalar(<<>>), Scalar(<<"0">>), Scalar(<<"-", "7">>),
     Scalar(<<"7", "x">>), Plural(<< <<"1", "4">>, <<"x">> >>)}
    \cup {Scalar(PyStr(id)) : id \in MovieIds}

\* what can be typed into the search box
SearchTexts == {<<>>, <<" ">>, <<"m">>}

\* movie_from_url: None or the text of the parameter
MovieFromUrl(qp) ==
    CASE qp.kind = "absent" -> None
      [] qp.kind = "list"   -> IF qp.l # <<>> THEN Some(qp.l[1]) ELSE None
      [] qp.kind = "str"    -> Some(qp.s)

\* the synchronisation reading only the last digit of the parameter
ReconcileLastDigit(qp) ==
    LET m == MovieFromUrl(qp)
    IN  IF m # None /\ m[1] # <<>> /\ PyInt(m[1]).ok
        THEN Some(PyInt(<<m[1][Len(m[1])]>>).val)
        ELSE None

\* URL -> state: the value of selected_movie_id after line 252, whatever
\* the session held before the run
Reconcile(qp) ==
    LET m == MovieFromUrl(qp)
    IN  IF m # None /\ m[1] # <<>>
        THEN IF PyInt(m[1]).ok THEN Some(PyInt(m[1]).val) ELSE None
        ELSE None

\* st.query_params written by the "More Info" buttons
SelectParams(mid) == Scalar(PyStr(mid))

\* the back arrow leaving the parameter in place
BackParamsKept(qp) == qp

\* st.query_params written by the back arrow
BackParams(qp) == Absent

\* is_searching
IsSearching(box) == Strip(box) # <<>>

\* the search step of a run: search_movie is called only when searching
SearchStep(key, box, resp) ==
    IF IsSearching(box) THEN search_movie(key, Strip(box), resp)
    ELSE [called |-> FALSE, result |-> EmptyList]

BaseMode(pg, box) ==
    IF pg = "my_list" THEN "MyList"
    ELSE IF IsSearching(box) THEN "Search" ELSE "Browse"

\* the mode a selection stands for
ModeOf(sel, pg, box) == IF sel # None THEN "Detail" ELSE BaseMode(pg, box)

\* the answers TMDb can give to the details request of a run
DetailResponses(qp) ==
    LET sel == Reconcile(qp)
    IN  {RaisedException}
        \cup IF sel # None /\ sel[1] \in MovieIds
             THEN {Http(HttpOk, TRUE, Movie(sel[1]))}
             ELSE {}

\* One run of the script up to the overlay branch: the synchronisation, the
\* search step, the list requests and the details of the selected movie.
RunScript(key, pg, box, qp, resp) ==
    LET sel == Reconcile(qp)
        search == SearchStep(key, box, resp)
        details == get_movie_details(key, sel, resp)
        recs == get_recommendations(key, sel, resp)
        modal == sel # None /\ Truthy(details.result)
    IN  [reconciled |-> sel,
         selected |-> IF modal THEN sel ELSE None,
         screen |-> IF modal THEN "modal"
                    ELSE IF pg = "my_list" THEN "my_list" ELSE "main",
         details |-> details.result,
         requested |-> (IF search.called THEN {"search"} ELSE {})
                       \cup (IF key # "" THEN {"trending", "popular", "top_rated"} ELSE {})
                       \cup (IF details.called THEN {"details"} ELSE {})
                       \cup (IF recs.called THEN {"recommendations"} ELSE {})]

(***************************************************************************)
(* The session: one action per user event, each the script run the event   *)
(* triggers together with the rerun its handler asks for.                  *)
(***************************************************************************)
Event(type, id) == [type |-> type, id |-> id]

\* preMode after a handler that makes no selection: kept while the overlay
\* that selection opened is the screen the handler ran from
StillOpen == IF screen = "modal" THEN preMode ELSE "none"

\* the session variables a script run leaves behind
Drawn(run) ==
    /\ selected_movie_id' = run.selected
    /\ screen' = run.screen
    /\ reconciled' = run.reconciled
    /\ requested' = run.requested

\* a click on a widget the run of the click no longer draws has no handler
ClickLost(run) ==
    /\ Drawn(run)
    /\ lastEvent' = Event("lost", 0)
    /\ preMode' = StillOpen
    /\ UNCHANGED <<store, my_list, page, search_box, query_params, lastSave>>

\* A page is opened at a location: a new session (process start, reload,
\* deep link, a card's ?movie= link).  Without the API key the script stops
\* at line 66; else lines 219-252 and the run that follows, unless the load
\* of the watchlist raises.
PageLoad(loc, r, resp) ==
    LET loaded == load_my_list_from_disk(store, r)
        run == RunScript(apiKey, "home", <<>>, loc, resp)
    IN  /\ IF apiKey = "" \/ loaded.raised
           THEN /\ my_list' = <<>>
                /\ selected_movie_id' = None
                /\ screen' = IF apiKey = "" THEN "no_key" ELSE "crash"
                /\ reconciled' = None
                /\ requested' = {}
           ELSE /\ my_list' = loaded.val
                /\ Drawn(run)
        /\ page' = "home"
        /\ search_box' = <<>>
        /\ query_params' = loc
        /\ lastEvent' = Event("load", 0)
        /\ preMode' = "none"
        /\ UNCHANGED <<store, lastSave>>

\* text is entered in the search box (line 646) and the script runs
TypeSearch(q, resp) ==
    /\ screen \in {"main", "modal", "my_list"}
    /\ q # search_box
    /\ search_box' = q
    /\ Drawn(RunScript(apiKey, page, q, query_params, resp))
    /\ lastEvent' = Event("search", 0)
    /\ preMode' = StillOpen
    /\ UNCHANGED <<store, my_list, page, query_params, lastSave>>

\* a "More Info" button of the main page (lines 697-705, 787-795)
ClickMoreInfo(mid, resp1, resp2) ==
    LET run1 == RunScript(apiKey, page, search_box, query_params, resp1)
        run2 == RunScript(apiKey, page, search_box, SelectParams(mid), resp2)
    IN  /\ screen = "main"
        /\ IF run1.screen # "main" THEN ClickLost(run1)
           ELSE /\ query_params' = SelectParams(mid)
                /\ Drawn(run2)
                /\ lastEvent' = Event("select", mid)
                /\ preMode' = BaseMode(page, search_box)
                        /\ UNCHANGED <<store, my_list, page, search_box, lastSave>>

\* the back arrow of the overlay (lines 185-191)
ClickBackArrow(resp1, resp2) ==
    LET run1 == RunScript(apiKey, page, search_box, query_params, resp1)
        run2 == RunScript(apiKey, page, search_box, BackParams(query_params), resp2)
    IN  /\ screen = "modal"
        /\ IF run1.screen # "modal" THEN ClickLost(run1)
           ELSE /\ query_params' = BackParams(query_params)
                /\ Drawn(run2)
                /\ lastEvent' = Event("close", 0)
                /\ UNCHANGED <<store, my_list, page, search_box, lastSave,
                               preMode>>

\* The browser's Back or Forward: the tab shows loc, an earlier location of
\* its history, and the script runs in the same session.  Which locations
\* the history holds is the browser's affair: the session only sees loc.
BrowserBack(loc, resp) ==
    /\ screen \in {"main", "modal", "my_list"}
    /\ loc # query_params
    /\ query_params' = loc
    /\ Drawn(RunScript(apiKey, page, search_box, loc, resp))
    /\ lastEvent' = Event("back", 0)
    /\ preMode' = StillOpen
    /\ UNCHANGED <<store, my_list, page, search_box, lastSave>>

\* the rerun after add or remove with the movie parameter cleared as well,
\* as the back arrow's handler does
MutatedClearingParams(type, id, res, w, resp) ==
    /\ my_list' = res.list
    /\ store' = res.store
    /\ lastSave' = IF res.saved THEN Some([list |-> res.list, ok |-> w.kind = "ok"])
                   ELSE lastSave
    /\ query_params' = Absent
    /\ Drawn(RunScript(apiKey, page, search_box, Absent, resp))
    /\ lastEvent' = Event(type, id)
    /\ preMode' = StillOpen
    /\ UNCHANGED <<page, search_box>>

\* the watchlist after a handler changed it, and the rerun; w is the outcome
\* of the write of that handler
Mutated(type, id, res, w, resp) ==
    /\ my_list' = res.list
    /\ store' = res.store
    /\ lastSave' = IF res.saved THEN Some([list |-> res.list, ok |-> w.kind = "ok"])
                   ELSE lastSave
    /\ Drawn(RunScript(apiKey, page, search_box, query_params, resp))
    /\ lastEvent' = Event(type, id)
    /\ preMode' = StillOpen
    /\ UNCHANGED <<page, search_box, query_params>>

\* the Add / Remove button of the overlay (lines 199-209)
ClickToggle(resp1, resp2) ==
    LET run1 == RunScript(apiKey, page, search_box, query_params, resp1)
        movie_id == DictGet(run1.details, "id", PyNone)
        id == IF movie_id = PyNone THEN None ELSE Some(movie_id.n)
        in_list == id # None /\ Contains(my_list, id[1])
    IN  /\ screen = "modal"
        /\ IF run1.screen # "modal" \/ id = None THEN ClickLost(run1)
           ELSE IF in_list
           THEN \E w \in WriteOutcomes(JsonDumps(Without(my_list, id[1]))) :
                    Mutated("remove", id[1],
                            remove_from_my_list(my_list, store, id, w), w, resp2)
           ELSE \E w \in WriteOutcomes(JsonDumps(Append(my_list, id[1]))) :
                    Mutated("add", id[1],
                            add_to_my_list(my_list, store, id, w), w, resp2)

\* a Remove button under the My List row of the main page (lines 708-730);
\* the row shows the saved movies whose details TMDb returned (found)
ClickRemoveRow(mid, resp1, found, resp2) ==
    LET run1 == RunScript(apiKey, page, search_box, query_params, resp1)
    IN  /\ screen = "main"
        /\ ~IsSearching(search_box)
        /\ Contains(my_list, mid)
        /\ IF run1.screen # "main" \/ ~found THEN ClickLost(run1)
           ELSE \E w \in WriteOutcomes(JsonDumps(Without(my_list, mid))) :
                    Mutated("remove", mid,
                            remove_from_my_list(my_list, store, Some(mid), w), w, resp2)

\* the links of the top bar
NavLinks == {"nav_home", "nav_my_list"}

\* A click on "Home" or "My List" in the top bar (lines 625-637): the two
\* are <span> elements of a markdown block, without a link, a widget or a
\* handler, so the click reaches no code: no run, and the session stays as
\* it is.  Nothing else in the script assigns st.session_state.page.
ClickNav(target) ==
    /\ screen \in {"main", "modal", "my_list"}
    /\ lastEvent' = Event(target, 0)
    /\ UNCHANGED <<store, my_list, selected_movie_id, page, search_box,
                   query_params, screen, reconciled, requested, lastSave, preMode>>

(***************************************************************************)
(* The client called on its own: one action per operation                  *)
(***************************************************************************)
\* the arguments the operations are called with
Queries == {<<>>, <<" ">>, <<"m">>}

IdArgs == {None, Some(0), Some(0 - 7)} \cup {Some(id) : id \in MovieIds}

\* an operation was called and returned out; the requests are counted
Called(op, query, movie_id, resp, out) ==
    /\ netCalls < MaxCalls \/ ~out.called
    /\ netCalls' = IF out.called THEN netCalls + 1 ELSE netCalls
    /\ apiCall' = [op |-> op, query |-> query, movie_id |-> movie_id, resp |-> resp,
                   called |-> out.called, result |-> out.result]
    /\ UNCHANGED apiKey

CallSearch(query, resp) ==
    Called("search_movie", query, None, resp, search_movie(apiKey, query, resp))

CallDetails(movie_id, resp) ==
    Called("get_movie_details", <<>>, movie_id, resp,
           get_movie_details(apiKey, movie_id, resp))

CallRecommendations(movie_id, resp) ==
    Called("get_recommendations", <<>>, movie_id, resp,
           get_recommendations(apiKey, movie_id, resp))

CallTrending(resp) == Called("get_trending", <<>>, None, resp, get_trending(apiKey, resp))

CallPopular(resp) == Called("get_popular", <<>>, None, resp, get_popular(apiKey, resp))

CallTopRated(resp) == Called("get_top_rated", <<>>, None, resp, get_top_rated(apiKey, resp))

\* the search step of a script run (lines 646-652) on the text of the box
CallSearchStep(box, resp) ==
    Called("search_box", box, None, resp, SearchStep(apiKey, box, resp))

(***************************************************************************)
(* Sessions sharing the store.  Every browser tab is a session with its    *)
(* own st.session_state, run by its own thread; my_list.json is the one    *)
(* file of them all and no lock guards it.  Path.write_text is open("w"),  *)
(* which truncates the file, then one write at the start of the file and   *)
(* the close: another session's open or write can fall between the two.    *)
(***************************************************************************)
Sessions == {1, 2}

\* a tab that has not run lines 219-220 yet
NoSession == [my_list |-> <<>>, loaded |-> <<>>, ops |-> <<>>, pc |-> "off", text |-> <<>>]

\* open(path, "w"): the file exists and is empty
OpenTruncate(st) == File(<<>>)

\* the write of text through a descriptor opened at offset 0, and the close:
\* the characters of the file beyond the text stay
WriteAtStart(st, text) ==
    File(text \o SubSeq(st.text, Len(text) + 1, Len(st.text)))

\* session s starts (lines 219-220): it loads the store once; a load that
\* raises ends the run before there is a session, and the tab may try again
StartSession(s, r) ==
    LET loaded == load_my_list_from_disk(store, r)
    IN  /\ apiKey # ""
        /\ sessions[s].pc = "off"
        /\ sessions' = [sessions EXCEPT ![s] =
               IF loaded.raised THEN NoSession
               ELSE [my_list |-> loaded.val, loaded |-> loaded.val, ops |-> <<>>,
                     pc |-> "idle", text |-> <<>>]]
        /\ UNCHANGED <<store, lastWriter, writeFailed>>

\* a handler of session s called add or remove: res is what the function
\* made of the session's list; when it saves, write_text opens the file
\* (denied: OSError before the file is touched, swallowed)
Handled(s, op, res, w) ==
    /\ sessions[s].pc = "idle"
    /\ Len(sessions[s].ops) < MaxOps
    /\ w.kind \in {"ok", "denied"}
    /\ sessions' = [sessions EXCEPT ![s] =
           [my_list |-> res.list, loaded |-> @.loaded, ops |-> Append(@.ops, op),
            pc |-> IF res.saved /\ w.kind = "ok" THEN "opened" ELSE "idle",
            text |-> IF res.saved /\ w.kind = "ok" THEN JsonDumps(res.list) ELSE <<>>]]
    /\ store' = IF res.saved /\ w.kind = "ok" THEN OpenTruncate(store) ELSE store
    /\ writeFailed' = (writeFailed \/ (res.saved /\ w.kind = "denied"))
    /\ UNCHANGED lastWriter

\* add_to_my_list(id) in session s
CallAdd(s, id, w) ==
    Handled(s, Event("add", id),
            add_to_my_list(sessions[s].my_list, store, Some(id), w), w)

\* remove_from_my_list(id) in session s
CallRemove(s, id, w) ==
    Handled(s, Event("remove", id),
            remove_from_my_list(sessions[s].my_list, store, Some(id), w), w)

\* the write and the close of the write_text session s is in: the text is
\* written (done) or OSError is raised with nothing written, and swallowed
FinishWrite(s, done) ==
    /\ sessions[s].pc = "opened"
    /\ sessions' = [sessions EXCEPT ![s].pc = "idle", ![s].text = <<>>]
    /\ store' = IF done THEN WriteAtStart(store, sessions[s].text) ELSE store
    /\ lastWriter' = IF done THEN Some([session |-> s, list |-> sessions[s].my_list])
                     ELSE lastWriter
    /\ writeFailed' = (writeFailed \/ ~done)

(***************************************************************************)
(* The application                                                         *)
(***************************************************************************)
KeyPresent == "key"

NoCall ==
    [op |-> "none", query |-> <<>>, movie_id |-> None, resp |-> RaisedException,
     called |-> FALSE, result |-> PyNone]

InitialStores == {MissingFile, File(NotJson)}

\* the first session of a process, opened at the bare address; API_KEY is
\* read from the environment once
Init ==
    /\ apiKey \in {"", KeyPresent}
    /\ store \in InitialStores
    /\ my_list = IF apiKey = "" THEN <<>> ELSE load_my_list_from_disk(store, "ok").val
    /\ selected_movie_id = None
    /\ page = "home"
    /\ search_box = <<>>
    /\ query_params = Absent
    /\ screen = IF apiKey = "" THEN "no_key" ELSE "main"
    /\ reconciled = None
    /\ requested = IF apiKey = "" THEN {}
                   ELSE RunScript(apiKey, "home", <<>>, Absent, RaisedException).requested
    /\ lastEvent = Event("load", 0)
    /\ lastSave = None
    /\ preMode = "none"
    /\ netCalls = 0
    /\ apiCall = NoCall
    /\ sessions = [s \in Sessions |-> NoSession]
    /\ lastWriter = None
    /\ writeFailed = FALSE

Next ==
    \/ \E loc \in Locations, r \in ReadOutcomes :
           \E resp \in DetailResponses(loc) :
               PageLoad(loc, r, resp) /\ UNCHANGED <<apiVars, sharedVars>>
    \/ \E q \in SearchTexts, resp \in DetailResponses(query_params) :
           TypeSearch(q, resp) /\ UNCHANGED <<apiVars, sharedVars>>
    \/ \E mid \in MovieIds, resp1 \in DetailResponses(query_params) :
           \E resp2 \in DetailResponses(SelectParams(mid)) :
               ClickMoreInfo(mid, resp1, resp2) /\ UNCHANGED <<apiVars, sharedVars>>
    \/ \E resp1 \in DetailResponses(query_params) :
           \E resp2 \in DetailResponses(BackParams(query_params)) :
               ClickBackArrow(resp1, resp2) /\ UNCHANGED <<apiVars, sharedVars>>
    \/ \E loc \in Locations :
           \E resp \in DetailResponses(loc) :
               BrowserBack(loc, resp) /\ UNCHANGED <<apiVars, sharedVars>>
    \/ \E resp1 \in DetailResponses(query_params) :
           \E resp2 \in DetailResponses(query_params) :
               ClickToggle(resp1, resp2) /\ UNCHANGED <<apiVars, sharedVars>>
    \/ \E mid \in MovieIds, found \in BOOLEAN :
           \E resp1 \in DetailResponses(query_params) :
               \E resp2 \in DetailResponses(query_params) :
                   ClickRemoveRow(mid, resp1, found, resp2) /\ UNCHANGED <<apiVars, sharedVars>>
    \/ \E target \in NavLinks :
           ClickNav(target) /\ UNCHANGED <<apiVars, sharedVars>>

Spec == Init /\ [][Next]_vars

NextApi ==
    \/ \E query \in Queries, resp \in Responses :
           CallSearch(query, resp) /\ UNCHANGED <<appVars, sharedVars>>
    \/ \E movie_id \in IdArgs, resp \in Responses :
           CallDetails(movie_id, resp) /\ UNCHANGED <<appVars, sharedVars>>
    \/ \E movie_id \in IdArgs, resp \in Responses :
           CallRecommendations(movie_id, resp) /\ UNCHANGED <<appVars, sharedVars>>
    \/ \E resp \in Responses : CallTrending(resp) /\ UNCHANGED <<appVars, sharedVars>>
    \/ \E resp \in Responses : CallPopular(resp) /\ UNCHANGED <<appVars, sharedVars>>
    \/ \E resp \in Responses : CallTopRated(resp) /\ UNCHANGED <<appVars, sharedVars>>
    \/ \E box \in SearchTexts, resp \in Responses :
           CallSearchStep(box, resp) /\ UNCHANGED <<appVars, sharedVars>>

SpecApi == Init /\ [][NextApi]_vars

NextShared ==
    \/ \E s \in Sessions, r \in ReadOutcomes :
           StartSession(s, r) /\ UNCHANGED <<viewVars, apiVars>>
    \/ \E s \in Sessions, id \in MovieIds :
           \E w \in WriteOutcomes(JsonDumps(sessions[s].my_list)) :
               CallAdd(s, id, w) /\ UNCHANGED <<viewVars, apiVars>>
    \/ \E s \in Sessions, id \in MovieIds :
           \E w \in WriteOutcomes(JsonDumps(sessions[s].my_list)) :
               CallRemove(s, id, w) /\ UNCHANGED <<viewVars, apiVars>>
    \/ \E s \in Sessions, done \in BOOLEAN :
           FinishWrite(s, done) /\ UNCHANGED <<viewVars, apiVars>>

SpecShared == Init /\ [][NextShared]_vars

(***************************************************************************)
(* Properties of the watchlist and its store                               *)
(***************************************************************************)
NoDuplicates(l) == \A i, j \in 1..Len(l) : l[i] = l[j] => i = j

Pos(l, x) == CHOOSE i \in 1..Len(l) : l[i] = x

\* l2 keeps the ids of l1 it still holds in their order and has the ids
\* that are new to it after all of those
KeepsInsertionOrder(l1, l2) ==
    \A i, j \in 1..Len(l2) :
        i < j =>
            /\ Contains(l1, l2[i]) /\ Contains(l1, l2[j])
                   => Pos(l1, l2[i]) < Pos(l1, l2[j])
            /\ ~(~Contains(l1, l2[i]) /\ Contains(l1, l2[j]))

\* the store holds the JSON text of list l
StoreHolds(l) ==
    /\ store.exists
    /\ JsonLoads(store.text).ok
    /\ JsonLoads(store.text).val = l

SessionUp == screen \in {"main", "modal", "my_list"}

C3_LoadNeverRaises ==
    /\ screen # "crash"
    /\ lastEvent.type = "load" /\ SessionUp
           => my_list = IF store.exists /\ JsonLoads(store.text).ok
                        THEN JsonLoads(store.text).val ELSE <<>>
    /\ lastEvent.type = "add" /\ Len(my_list) = 1 => StoreHolds(<<lastEvent.id>>)

(***************************************************************************)
(* Properties of the selection and the address bar                         *)
(***************************************************************************)
\* the movie parameter is present and its text (the first one of a list) is
\* a decimal integer greater than zero
ParsesPositive(qp) ==
    /\ MovieFromUrl(qp) # None
    /\ PyInt(MovieFromUrl(qp)[1]).ok
    /\ PyInt(MovieFromUrl(qp)[1]).val > 0

\* C4 as claimed: after the synchronisation of a run the selection is set,
\* to n, exactly when the movie parameter of the location is present and
\* parses as a positive integer n; in every other case it is None.
C4_SelectionIffPositiveInteger ==
    SessionUp =>
        /\ reconciled # None <=> ParsesPositive(query_params)
        /\ reconciled # None => reconciled[1] = PyInt(MovieFromUrl(query_params)[1]).val

\* C5: when a "More Info" button has selected movie id, the synchronisation
\* of the rerun, reading the location the button wrote, yields
\* selected_movie_id = id, and with it the Detail mode.
C5_SelectThenReconcile ==
    lastEvent.type = "select" =>
        /\ reconciled = Some(lastEvent.id)
        /\ ModeOf(reconciled, page, search_box) = "Detail"

C5_Witness ==
    /\ lastEvent.type = "select"
    /\ lastEvent.id = 14
    /\ selected_movie_id = Some(14)
    /\ screen = "modal"

\* the overlay was closed: by its back arrow, or by the browser going back
\* to a location without the movie parameter
JustClosed(ev, qp) ==
    ev.type = "close" \/ (ev.type = "back" /\ qp.kind = "absent")

ListOps ==
    {"search_movie", "get_recommendations", "get_trending", "get_popular",
     "get_top_rated", "search_box"}

\* the empty sequence of a list operation, the absent record of the details
EmptyResult(op) == IF op = "get_movie_details" THEN EmptyDict ELSE EmptyList

\* a movie entry: a dict with a positive integer id and a title
WellFormedMovie(v) ==
    /\ v.t = "dict"
    /\ {"id", "title"} \subseteq v.keys
    /\ v.d["id"].t = "int" /\ v.d["id"].n > 0
    /\ v.d["title"].t = "str" /\ v.d["title"].s # ""

\* C7: without the API key every operation of the client returns its empty
\* result and no request is ever sent.
C7_NoKeyNoRequest ==
    apiKey = "" =>
        /\ netCalls = 0
        /\ apiCall.op # "none" =>
               ~apiCall.called /\ apiCall.result = EmptyResult(apiCall.op)

C7_Witness ==
    /\ apiKey = ""
    /\ apiCall.op = "get_movie_details"
    /\ apiCall.movie_id = Some(7)
    /\ apiCall.resp = Http(HttpOk, TRUE, Movie(7))
    /\ apiCall.result = EmptyDict

\* the request did not bring back a usable answer
Failed(resp) == resp.kind = "exception" \/ resp.status # HttpOk \/ ~resp.valid

\* C8 as claimed: whatever the request comes back with, a list operation
\* returns a sequence, empty or of well-formed movies, and the details a
\* dict; and after a failed request the result is the empty one.
C8_AlwaysEmptyOrWellFormed ==
    apiCall.op # "none" =>
        /\ apiCall.op \in ListOps =>
               /\ apiCall.result.t = "list"
               /\ \A i \in 1..Len(apiCall.result.l) : WellFormedMovie(apiCall.result.l[i])
        /\ apiCall.op = "get_movie_details" => apiCall.result.t = "dict"
        /\ Failed(apiCall.resp) => apiCall.result = EmptyResult(apiCall.op)

\* the argument asks for nothing: an empty query, an absent or zero id, a
\* search box that is blank once stripped
BlankArgument(c) ==
    \/ c.op = "search_movie" /\ c.query = <<>>
    \/ c.op \in {"get_movie_details", "get_recommendations"}
           /\ (c.movie_id = None \/ c.movie_id = Some(0))
    \/ c.op = "search_box" /\ Strip(c.query) = <<>>

\* C9: a search for the empty query, the details or recommendations of an
\* absent or zero id, and the search step of a run whose box is blank after
\* stripping return the empty result and send no request, with or without
\* the key and whatever TMDb would have answered.
C9_BlankArgumentNoRequest ==
    BlankArgument(apiCall) =>
        ~apiCall.called /\ apiCall.result = EmptyResult(apiCall.op)

C9_Witness ==
    /\ apiKey = KeyPresent
    /\ apiCall.op = "search_box"
    /\ apiCall.query = <<" ">>
    /\ apiCall.resp = Http(HttpOk, TRUE, Results(PyList(<<Movie(7)>>)))
    /\ ~apiCall.called
    /\ netCalls = 0

Count(l, x) == Cardinality({i \in 1..Len(l) : l[i] = x})

\* the call of add or remove that session s made last
LastOp(s) == sessions[s].ops[Len(sessions[s].ops)]

\* C11: after add(id) the list of the session holds id exactly once and
\* after remove(id) not at all; an add of an id the list already holds
\* changes neither the list nor the store and writes nothing, so that
\* add(id); add(id) leaves the list of the single add(id); and a remove of
\* an id the list does not hold (a second remove) leaves the list as it is.
C11_AddRemoveIdempotent ==
    /\ [](\A s \in Sessions :
              sessions[s].ops # <<>> =>
                  Count(sessions[s].my_list, LastOp(s).id)
                      = IF LastOp(s).type = "add" THEN 1 ELSE 0)
    /\ [][\A s \in Sessions :
              Len(sessions'[s].ops) = Len(sessions[s].ops) + 1 =>
                  LET op == sessions'[s].ops[Len(sessions'[s].ops)]
                      present == Contains(sessions[s].my_list, op.id)
                  IN  /\ op.type = "add" /\ present =>
                             /\ sessions'[s].my_list = sessions[s].my_list
                             /\ sessions'[s].pc = "idle"
                             /\ store' = store
                      /\ op.type = "remove" /\ ~present =>
                             sessions'[s].my_list = sessions[s].my_list]_vars

C11_Witness ==
    \E s \in Sessions :
        /\ sessions[s].ops = <<Event("add", 7), Event("add", 7)>>
        /\ sessions[s].my_list = <<7>>
        /\ sessions[s].pc = "idle"
        /\ StoreHolds(<<7>>)

\* what a call of add or remove is to make of a list
ApplyOp(l, op) ==
    IF op.type = "add" THEN (IF Contains(l, op.id) THEN l ELSE Append(l, op.id))
    ELSE Without(l, op.id)

RECURSIVE Replay(_, _)
Replay(l, ops) ==
    IF ops = <<>> THEN l ELSE Replay(ApplyOp(l, Head(ops)), Tail(ops))

\* no session is inside write_text
Quiescent == \A s \in Sessions : sessions[s].pc # "opened"

\* C12 as claimed: the list of every session is the list it loaded with its
\* own adds and removes applied, and once the writes have returned (none of
\* them having failed) the store holds the whole list of the session whose
\* write completed last, last writer wins, never a mix of two lists.
C12_OwnWritesAndLastWriterWins ==
    /\ \A s \in Sessions :
           sessions[s].pc # "off" =>
               sessions[s].my_list = Replay(sessions[s].loaded, sessions[s].ops)
    /\ Quiescent /\ ~writeFailed /\ lastWriter # None =>
           StoreHolds(lastWriter[1].list)

(***************************************************************************)
(* The My List page                                                        *)
(***************************************************************************)
\* C13 as claimed: a click on "My List" with no overlay open, in Browse or
\* in Search, puts the view in the MyList mode, a click on "Home" puts it
\* on the home page, and the text of the search box is left as it was.
C13_MyListReachable ==
    /\ lastEvent.type = "nav_my_list" /\ selected_movie_id = None
           => ModeOf(selected_movie_id, page, search_box) = "MyList"
    /\ lastEvent.type = "nav_home" /\ selected_movie_id = None
           => page = "home"

(***************************************************************************)
(* Watchlist and navigation framed apart                                   *)
(***************************************************************************)
\* the step is the handler of an add or a remove
WatchlistStep(ev) == ev.type \in {"add", "remove"}

\* the step is a selection, a close, a browser navigation in the session
\* or an edit of the search box
NavigationStep(ev) == ev.type \in {"select", "close", "back", "search"}

\* navigation leaves the watchlist and the store alone, and the movie
\* parameter changes only with a selection, a close, or the browser
\* showing another location (Back / Forward, a page opened)
NavigationFrame ==
    [][/\ NavigationStep(lastEvent') => my_list' = my_list /\ store' = store
       /\ query_params' # query_params
              => lastEvent'.type \in {"select", "close", "back", "load"}]_vars

\* C14 as claimed: an add or a remove, the overlay's toggle included, leaves
\* selected_movie_id, the mode and the movie parameter as they were, the
\* overlay staying open on its movie after the rerun; and navigation leaves
\* the watchlist and the store alone, the movie parameter being written
\* only by a selection and a close.
C14_WatchlistAndNavigationFramedApart ==
    /\ [][WatchlistStep(lastEvent') =>
              /\ selected_movie_id' = selected_movie_id
              /\ screen' = screen
              /\ ModeOf(selected_movie_id', page', search_box')
                     = ModeOf(selected_movie_id, page, search_box)
              /\ query_params' = query_params]_vars
    /\ NavigationFrame

\* C14 amended: an add or a remove leaves the movie parameter, the page and
\* the search box as they were; its rerun reads the selection from the
\* parameter as every run does, so the overlay is open after it, on the
\* movie of the parameter, when the rerun gets that movie's details (an open
\* overlay then stays open on its movie), and otherwise selected_movie_id
\* is None and the main page is drawn.  Navigation leaves the watchlist and
\* the store alone as claimed.
C14_FramedApartUpToDetails ==
    /\ [][WatchlistStep(lastEvent') =>
              /\ query_params' = query_params
              /\ reconciled' = reconciled
              /\ page' = page /\ search_box' = search_box
              /\ selected_movie_id' \in {reconciled', None}
              /\ screen' = IF selected_movie_id' # None THEN "modal" ELSE "main"
              /\ screen = "modal" /\ screen' = "modal"
                     => selected_movie_id' = selected_movie_id]_vars
    /\ NavigationFrame

C14_Witness ==
    /\ lastEvent = Event("add", 7)
    /\ screen = "modal"
    /\ selected_movie_id = Some(7)
    /\ query_params = Scalar(PyStr(7))
    /\ Contains(my_list, 7)

====
